---- MODULE Spec2Model ----
(***************************************************************************)
(* Model of src/src/utils.py: get_next_id(prefix, df), the sequential      *)
(* record-ID allocator of the Ethiopia FI forecast project, and of the     *)
(* control flow of src/dashboard/app.py, its Streamlit dashboard.          *)
(*                                                                         *)
(* A Python str is a sequence of one-character strings.  The character     *)
(* "sup2" stands for U+00B2 (superscript two), a character for which       *)
(* str.isdigit() is True and int() raises ValueError.                      *)
(* A cell of the record_id column is either a str or a missing value (NaN).*)
(***************************************************************************)
EXTENDS Integers, Sequences, FiniteSets, TLC

VARIABLES df, log, persisted

\* the dashboard: the data file, the st.cache_data entry of load_data, the
\* widget values of the session, the position in the script, the names
\* assigned in this run of the script and what the run has called and rendered
VARIABLES file, cache, widgets, pc, globals, trace

regvars == <<df, log, persisted>>
appvars == <<file, cache, widgets, pc, globals, trace>>

vars == <<df, log, persisted, file, cache, widgets, pc, globals, trace>>

(* ------------------------------ bounds --------------------------------- *)

\* longest record_id column drawn for the dataframe
MaxRows == 2

\* number of get_next_id calls made against the dataframe
MaxCalls == 3

\* longest record_id column the unserialized callers start from
MaxSeedRows == 1

\* number of calls made by the unserialized callers
MaxRacers == 2

\* largest number of rows of the dashboard's data file
MaxFileRows == 2

(* --------------------------- Python strings ---------------------------- *)

AsciiDigits == {"0", "1", "2", "3", "4", "5", "6", "7", "8", "9"}

\* the separator written in the f-strings and passed to str.split
Sep == "_"

DigitValue(c) ==
    CASE c = "0" -> 0 [] c = "1" -> 1 [] c = "2" -> 2 [] c = "3" -> 3
      [] c = "4" -> 4 [] c = "5" -> 5 [] c = "6" -> 6 [] c = "7" -> 7
      [] c = "8" -> 8 [] c = "9" -> 9

DigitChar(n) ==
    CASE n = 0 -> "0" [] n = 1 -> "1" [] n = 2 -> "2" [] n = 3 -> "3"
      [] n = 4 -> "4" [] n = 5 -> "5" [] n = 6 -> "6" [] n = 7 -> "7"
      [] n = 8 -> "8" [] n = 9 -> "9"

\* str.startswith(p)
str_startswith(x, p) ==
    /\ Len(p) <= Len(x)
    /\ SubSeq(x, 1, Len(p)) = p

\* c in x
str_contains(x, c) == \E i \in 1..Len(x) : x[i] = c

\* x.split(c): the segments between the occurrences of c, empty ones kept
RECURSIVE str_split(_, _)
str_split(x, c) ==
    IF ~str_contains(x, c)
    THEN <<x>>
    ELSE LET i == CHOOSE k \in 1..Len(x) :
                      /\ x[k] = c
                      /\ \A j \in 1..(k - 1) : x[j] # c
         IN  <<SubSeq(x, 1, i - 1)>> \o str_split(SubSeq(x, i + 1, Len(x)), c)

\* str.isdigit(): non-empty and every character has the Unicode digit property
str_isdigit(s) ==
    /\ Len(s) > 0
    /\ \A i \in 1..Len(s) : s[i] \in AsciiDigits \cup {"sup2"}

\* int(s) raises ValueError unless s is a decimal numeral
int_raises(s) ==
    \/ Len(s) = 0
    \/ \E i \in 1..Len(s) : s[i] \notin AsciiDigits

\* int(s) for a decimal numeral s (leading zeros allowed)
RECURSIVE int_value(_)
int_value(s) ==
    IF Len(s) = 0
    THEN 0
    ELSE 10 * int_value(SubSeq(s, 1, Len(s) - 1)) + DigitValue(s[Len(s)])

\* str(n) for n >= 0
RECURSIVE int_str(_)
int_str(n) ==
    IF n < 10
    THEN <<DigitChar(n)>>
    ELSE int_str(n \div 10) \o <<DigitChar(n % 10)>>

\* the minimum field width of the format specification :04d
PadWidth == 4

\* f"{n:04d}": str(n) padded on the left with zeros to PadWidth characters
RECURSIVE zero_pad(_, _)
zero_pad(s, w) == IF Len(s) >= w THEN s ELSE zero_pad(<<"0">> \o s, w)

\* f"{n:d}": no minimum field width
format_d(n) == int_str(n)

format_04d(n) == zero_pad(int_str(n), PadWidth)

\* nums[-1]: the number of the last row instead of the largest
list_last(nums) == nums[Len(nums)]

\* max(nums) for a non-empty list
list_max(nums) ==
    CHOOSE m \in {nums[i] : i \in 1..Len(nums)} :
        \A i \in 1..Len(nums) : nums[i] <= m

(* ------------------------- dataframe and cells ------------------------- *)

Str(s) == [isna |-> FALSE, s |-> s]
NaN == [isna |-> TRUE, s |-> <<>>]

\* outcome of a call: a returned str or an exception that leaves the call
Return(s) == [exc |-> "none", value |-> s]
Raise(e) == [exc |-> e, value |-> <<>>]

\* Series.str raises AttributeError ("Can only use .str accessor with string
\* values") unless the column holds strings (dtype object); line 21 is outside
\* the try block
str_accessor_raises(d) == d.dtype # "object"

\* df['record_id'].str.startswith(prefix, na=False), one cell
startswith_na_false(cell, prefix) ==
    IF cell.isna THEN FALSE ELSE str_startswith(cell.s, prefix)

\* a sequence that starts at 0 instead of 1
FirstIdOffByOne(prefix) == prefix \o <<Sep, "0", "0", "0", "0">>

\* f"{prefix}_0001" (lines 19, 24, 30 and 34)
FirstId(prefix) == prefix \o <<Sep, "0", "0", "0", "1">>

\* x.split('_')[-1]: the last segment instead of the second
last_segment(x) == LET parts == str_split(x, Sep) IN parts[Len(parts)]

\* x.split('_')[1]
second_segment(x) == str_split(x, Sep)[2]

\* a condition that accepts only segments of exactly PadWidth characters
comprehension_keeps_padded(x) ==
    /\ str_contains(x, Sep)
    /\ str_isdigit(second_segment(x))
    /\ Len(second_segment(x)) = PadWidth

\* the condition of the list comprehension
comprehension_keeps(x) ==
    /\ str_contains(x, Sep)
    /\ str_isdigit(second_segment(x))

\* evaluating the comprehension for x raises: with the '_' in x guard dropped,
\* x.split('_')[1] raises IndexError on a cell without separator
comprehension_raises_unguarded(x) ==
    \/ ~str_contains(x, Sep)
    \/ comprehension_keeps(x) /\ int_raises(second_segment(x))

\* evaluating the comprehension for x raises: int() raises ValueError on a kept
\* segment; x.split('_')[1] cannot raise IndexError behind the '_' in x guard
comprehension_raises(x) ==
    comprehension_keeps(x) /\ int_raises(second_segment(x))

\* the guard of line 18 left out
has_record_id_column_unguarded(d) == TRUE

\* 'record_id' in df.columns (line 18)
has_record_id_column(d) == "record_id" \in d.columns

\* df['record_id'] raises KeyError when the table has no such column (line 21)
column_access_raises(d) == "record_id" \notin d.columns

\* lines 18-34; the list comprehension of line 28 is evaluated inside the try
\* block, so a ValueError of int() on any kept cell ends it in the except branch
get_next_id(prefix, d) ==
    IF ~has_record_id_column(d)
    THEN Return(FirstId(prefix))
    ELSE IF column_access_raises(d)
    THEN Raise("KeyError")
    ELSE IF str_accessor_raises(d)
    THEN Raise("AttributeError")
    ELSE
    LET existing == SelectSeq(d.record_id,
                              LAMBDA cell : startswith_na_false(cell, prefix))
    IN
    IF Len(existing) = 0
    THEN Return(FirstId(prefix))
    ELSE
    LET kept == SelectSeq(existing, LAMBDA cell : comprehension_keeps(cell.s))
        segs == [i \in 1..Len(kept) |-> second_segment(kept[i].s)]
    IN
    IF \E i \in 1..Len(existing) : comprehension_raises(existing[i].s)
    THEN Return(FirstId(prefix))                \* except (IndexError, ValueError)
    ELSE
    LET nums == [i \in 1..Len(segs) |-> int_value(segs[i])]
    IN
    IF nums = <<>>
    THEN Return(FirstId(prefix))
    ELSE Return(prefix \o <<Sep>> \o format_04d(list_max(nums) + 1))

(* ------------------------- inputs of the model ------------------------- *)

\* prefixes passed by the callers: two plain ones and one holding the separator
EVT == <<"E", "V", "T">>
IMP == <<"I", "M", "P">>
A_B == <<"A", Sep, "B">>

Prefixes == {EVT, IMP, A_B}

\* a prefix that is an initial part of another prefix
EV == <<"E", "V">>

\* record_id cells the column is drawn from
EVT_0001 == EVT \o <<Sep, "0", "0", "0", "1">>
EVT_0003 == EVT \o <<Sep, "0", "0", "0", "3">>
EVT_0005 == EVT \o <<Sep, "0", "0", "0", "5">>
EVT_abc == EVT \o <<Sep, "a", "b", "c">>
EVT_sup2 == EVT \o <<Sep, "sup2">>
EVTX_0009 == EVT \o <<"X", Sep, "0", "0", "0", "9">>
IMP_0001 == IMP \o <<Sep, "0", "0", "0", "1">>
A_B_0001 == A_B \o <<Sep, "0", "0", "0", "1">>
EVT_9999 == EVT \o <<Sep, "9", "9", "9", "9">>
EVT_7 == EVT \o <<Sep, "7">>
EVT_0001_extra == EVT_0001 \o <<Sep, "e", "x", "t", "r", "a">>
EVT_000007 == EVT \o <<Sep, "0", "0", "0", "0", "0", "7">>

Pool ==
    {Str(EVT_0001), Str(EVT_0003), Str(EVT_0005), Str(EVT_abc), Str(EVT),
     Str(EVT_sup2), Str(EVTX_0009), Str(IMP_0001), Str(A_B_0001),
     Str(EVT_9999), Str(EVT_7), Str(EVT_0001_extra), Str(EVT_000007), NaN}

Columns == UNION {[1..n -> Pool] : n \in 0..MaxRows}

\* dtype of a column holding these cells: object when a str is present or the
\* column is empty; a column of missing values only is float64 when pandas
\* infers its dtype (read_csv, DataFrame constructor) and object when it is
\* sliced from an object column
Dtypes(cells) ==
    IF cells # <<>> /\ \A i \in 1..Len(cells) : cells[i].isna
    THEN {"object", "float64"}
    ELSE {"object"}

\* a table without the record_id column (tests/test_utils.py:22)
NoRecordIdDf == [columns |-> {"other"}, dtype |-> "object", record_id |-> <<>>]

DataFrames ==
    {NoRecordIdDf} \cup
    UNION {{[columns |-> {"record_id"}, dtype |-> t, record_id |-> cells] :
                t \in Dtypes(cells)} : cells \in Columns}

(* ----------------------- dashboard: data and values -------------------- *)
(* src/dashboard/app.py is a Streamlit script: it runs from top to bottom  *)
(* at start-up and again after every interaction with a widget, each time  *)
(* in a fresh namespace; st.cache_data keeps what load_data returned.      *)

\* a row of data/raw/ethiopia_fi_unified_data_enriched.csv, the columns the
\* script reads
Row(id, type, parent, code, gender, location, date) ==
    [record_id |-> id, record_type |-> type, parent_id |-> parent,
     indicator_code |-> code, gender |-> gender, location |-> location,
     observation_date |-> date]

\* the missing date of pandas
NaT == 0

\* pd.to_datetime(text, errors='coerce'): the day as yyyymmdd, NaT for text
\* that is no date
to_datetime_coerce(text) ==
    CASE text = "2021-05-17" -> 20210517
      [] text = "2021-12-31" -> 20211231
      [] text = "2024-11-29" -> 20241129
      [] OTHER -> NaT

ObsAcc2024 ==
    Row("REC_0002", "observation", "", "ACC_OWNERSHIP", "all", "national", "2024-11-29")
ObsAcc2021 ==
    Row("REC_0001", "observation", "", "ACC_OWNERSHIP", "all", "national", "2021-12-31")
ObsAccUndated ==
    Row("REC_0003", "observation", "", "ACC_OWNERSHIP", "all", "national", "")
ObsAccFemale ==
    Row("REC_0004", "observation", "", "ACC_OWNERSHIP", "female", "national", "2024-11-29")
EventRow ==
    Row("EVT_0001", "event", "", "EVT_TELEBIRR", "all", "national", "2021-05-17")
ImpactLinkRow ==
    Row("IMP_0001", "impact_link", "EVT_0001", "ACC_OWNERSHIP", "all", "national", "")

FileRows ==
    {ObsAcc2024, ObsAcc2021, ObsAccUndated, ObsAccFemale, EventRow, ImpactLinkRow}

\* the data file: absent, or a CSV file with these rows
Missing == [exists |-> FALSE, rows |-> <<>>]
CsvFile(rows) == [exists |-> TRUE, rows |-> rows]

DataFiles ==
    {Missing} \cup {CsvFile(rows) : rows \in UNION {[1..n -> FileRows] : n \in 0..MaxFileRows}}

\* data_path.exists() (line 55)
path_exists(f) == f.exists

\* a Python value that is None or a DataFrame
None == [isnone |-> TRUE, rows |-> <<>>]
DataFrame(rows) == [isnone |-> FALSE, rows |-> rows]

\* the body of load_data (lines 54-64): the value returned and the elements
\* written with st.* while it ran
load_data_body(f) ==
    IF ~path_exists(f)
    THEN [value |-> None, elements |-> <<"st.error">>]
    ELSE [value |-> DataFrame([i \in 1..Len(f.rows) |->
                        [f.rows[i] EXCEPT !.observation_date = to_datetime_coerce(@)]]),
          elements |-> <<>>]

\* st.cache_data (line 51): no entry, or the value load_data returned together
\* with the elements it wrote, which are replayed on a hit
NoEntry == [hit |-> FALSE, value |-> None, elements |-> <<>>]
Entry(r) == [hit |-> TRUE, value |-> r.value, elements |-> r.elements]

\* load_data() as the script calls it (lines 51-64)
load_data(c, f) ==
    IF c.hit
    THEN [value |-> c.value, elements |-> c.elements]
    ELSE load_data_body(f)

\* rows.sort_values('observation_date'): stable, ascending
RECURSIVE sort_values(_)
sort_values(rows) ==
    IF Len(rows) <= 1
    THEN rows
    ELSE LET head == sort_values(SubSeq(rows, 1, Len(rows) - 1))
             last == rows[Len(rows)]
             before == SelectSeq(head, LAMBDA r : r.observation_date <= last.observation_date)
             after == SelectSeq(head, LAMBDA r : r.observation_date > last.observation_date)
         IN  before \o <<last>> \o after

\* dropna(subset=['observation_date'])
dropna(rows) == SelectSeq(rows, LAMBDA r : r.observation_date # NaT)

\* prepare_observations(df) (lines 67-71)
prepare_observations(d) ==
    sort_values(dropna(SelectSeq(d.rows, LAMBDA r : r.record_type = "observation")))

\* prepare_events(df) (lines 74-78)
prepare_events(d) ==
    sort_values(dropna(SelectSeq(d.rows, LAMBDA r : r.record_type = "event")))

\* the rows of the inner join of one impact link with the events
RECURSIVE merge(_, _)
merge(links, events) ==
    IF links = <<>>
    THEN <<>>
    ELSE LET matched == SelectSeq(events, LAMBDA e : e.record_id = links[1].parent_id)
         IN  [i \in 1..Len(matched) |-> [impact |-> links[1], event |-> matched[i]]]
                 \o merge(Tail(links), events)

\* prepare_impact_links(df) (lines 81-92)
prepare_impact_links(d) ==
    merge(SelectSeq(d.rows, LAMBDA r : r.record_type = "impact_link"),
          SelectSeq(d.rows, LAMBDA r : r.record_type = "event"))

\* the national all-gender ACC_OWNERSHIP observations (lines 439-443, 574-578)
acc_ownership_of(obs) ==
    sort_values(SelectSeq(obs, LAMBDA r : /\ r.indicator_code = "ACC_OWNERSHIP"
                                          /\ r.gender = "all"
                                          /\ r.location = "national"))

\* pd.date_range(start='2025-12-31', end='2027-12-31', freq='Y') (lines 451, 585)
forecast_date_range == <<20251231, 20261231, 20271231>>

\* the multiplier of base_forecast chosen by the scenario (lines 592-597)
ScenarioFactor(s) ==
    CASE s = "Optimistic" -> "1.15"
      [] s = "Pessimistic" -> "0.9"
      [] OTHER -> "1"

\* the options of the widgets (lines 105-108 and 564-568) and what they return
\* before the user has chosen
Pages == {"Overview", "Trends", "Forecasts", "Inclusion Projections"}
Scenarios == {"Optimistic", "Base", "Pessimistic"}
DefaultWidgets == [page |-> "Overview", scenario |-> "Base"]

\* the namespace of a run before any assignment
NoGlobals == [n \in {} |-> None]

\* name = value
Assign(g, name, value) == (name :> value) @@ g

\* the dashboard is not running
DashboardOff ==
    /\ file = Missing
    /\ cache = NoEntry
    /\ widgets = DefaultWidgets
    /\ pc = "off"
    /\ globals = NoGlobals
    /\ trace = <<>>

(* ---------------------------- state machine ---------------------------- *)

Init ==
    /\ df \in DataFrames
    /\ log = <<>>
    /\ persisted = {}
    /\ DashboardOff

\* a call whose result is also remembered in the table: an implicit reservation
CallReserving(p) ==
    /\ Len(log) < MaxCalls
    /\ LET r == get_next_id(p, df)
       IN  /\ log' = Append(log, [prefix |-> p, df |-> df, result |-> r])
           /\ df' = IF r.exc = "none" /\ "record_id" \in df.columns
                    THEN [df EXCEPT !.record_id = Append(@, Str(r.value)),
                                    !.dtype = "object"]
                    ELSE df
    /\ UNCHANGED <<persisted, appvars>>

\* a call that also reads the identifier issued by the call before it: a hidden cache
CallCaching(p) ==
    /\ Len(log) < MaxCalls
    /\ LET last == IF log = <<>> THEN Raise("none") ELSE log[Len(log)].result
           seen == IF last.exc = "none" /\ "record_id" \in df.columns
                   THEN [df EXCEPT !.record_id = Append(@, Str(last.value)),
                                   !.dtype = "object"]
                   ELSE df
       IN  log' = Append(log, [prefix |-> p, df |-> df,
                               result |-> get_next_id(p, seen)])
    /\ UNCHANGED <<df, persisted, appvars>>

\* one call get_next_id(p, df); the log keeps its arguments and its outcome
Call(p) ==
    /\ Len(log) < MaxCalls
    /\ log' = Append(log, [prefix |-> p, df |-> df,
                           result |-> get_next_id(p, df)])
    /\ UNCHANGED <<df, persisted, appvars>>

Next == \E p \in Prefixes : Call(p)

Spec == Init /\ [][Next]_vars

(* ------------------------ callers of the allocator --------------------- *)
(* The code that appends a row carrying the freshly minted record_id is    *)
(* not among the sources; these steps follow the specification's           *)
(* description of the caller: read the registry, compute the next          *)
(* identifier, append it.                                                  *)

\* the table with identifier id appended as a new row
AppendId(d, id) ==
    [d EXCEPT !.record_id = Append(@, Str(id)), !.dtype = "object"]

\* the caller of logged call i appends the identifier that call returned
Persist(i) ==
    /\ i \in (1..Len(log)) \ persisted
    /\ log[i].result.exc = "none"
    /\ "record_id" \in df.columns
    /\ df' = AppendId(df, log[i].result.value)
    /\ persisted' = persisted \cup {i}
    /\ UNCHANGED <<log, appvars>>

\* the tables the unserialized callers start from
InitRace ==
    /\ df \in {d \in DataFrames : Len(d.record_id) <= MaxSeedRows}
    /\ log = <<>>
    /\ persisted = {}
    /\ DashboardOff

\* callers without serialization: calls and appends interleave freely
NextRace ==
    \/ \E p \in Prefixes : Len(log) < MaxRacers /\ Call(p)
    \/ \E i \in 1..MaxRacers : Persist(i)

SpecRace == InitRace /\ [][NextRace]_vars

\* a caller under mutual exclusion: read, get_next_id and append in one step
Allocate(p) ==
    /\ Len(log) < MaxCalls
    /\ "record_id" \in df.columns
    /\ LET r == get_next_id(p, df)
       IN  /\ log' = Append(log, [prefix |-> p, df |-> df, result |-> r])
           /\ df' = IF r.exc = "none" THEN AppendId(df, r.value) ELSE df
           /\ persisted' = IF r.exc = "none"
                           THEN persisted \cup {Len(log) + 1}
                           ELSE persisted
    /\ UNCHANGED appvars

NextAtomic == \E p \in Prefixes : Allocate(p)

SpecAtomic == Init /\ [][NextAtomic]_vars

(* --------------------- dashboard: one run of the script ---------------- *)
(* pc names the line the run is about to execute; "stopped" is a run ended *)
(* by st.stop(), "NameError" a run ended by that exception, "done" a run   *)
(* that reached the end of the script.  trace lists, in order, the         *)
(* functions of the script the run has called and the elements it has      *)
(* rendered.  The pages Overview and Trends only read the prepared tables  *)
(* and assign names of their own; they are represented by their header.    *)

InitDash ==
    /\ df = NoRecordIdDf
    /\ log = <<>>
    /\ persisted = {}
    /\ file \in DataFiles
    /\ cache = NoEntry
    /\ widgets = DefaultWidgets
    /\ pc = "L18"
    /\ globals = NoGlobals
    /\ trace = <<>>

\* lines 18-49: page configuration and the style sheet
PageConfig ==
    /\ pc = "L18"
    /\ trace' = trace \o <<"st.set_page_config", "st.markdown(style)">>
    /\ pc' = "L95"
    /\ UNCHANGED <<file, cache, widgets, globals, regvars>>

\* line 95: df = load_data()
RunLoadData ==
    /\ pc = "L95"
    /\ LET r == load_data(cache, file)
       IN  /\ cache' = Entry(r)
           /\ globals' = Assign(globals, "df", r.value)
           /\ trace' = trace \o <<"load_data">> \o r.elements
    /\ pc' = "L96"
    /\ UNCHANGED <<file, widgets, regvars>>

\* lines 96-97 without the call of st.stop()
CheckLoadedNoStop ==
    /\ pc = "L96"
    /\ pc' = "L99"
    /\ UNCHANGED <<file, cache, widgets, globals, trace, regvars>>

\* lines 96-97: if df is None: st.stop()
CheckLoaded ==
    /\ pc = "L96"
    /\ pc' = IF globals["df"].isnone THEN "stopped" ELSE "L99"
    /\ UNCHANGED <<file, cache, widgets, globals, trace, regvars>>

\* lines 99-101: the three prepared tables
PrepareData ==
    /\ pc = "L99"
    /\ globals' =
           Assign(Assign(Assign(globals,
               "obs_df", prepare_observations(globals["df"])),
               "events_df", prepare_events(globals["df"])),
               "impact_with_events", prepare_impact_links(globals["df"]))
    /\ trace' = trace \o <<"prepare_observations", "prepare_events",
                           "prepare_impact_links">>
    /\ pc' = "L104"
    /\ UNCHANGED <<file, cache, widgets, regvars>>

\* lines 104-115: the sidebar; the selectbox returns the page of the session
Sidebar ==
    /\ pc = "L104"
    /\ globals' = Assign(globals, "page", widgets.page)
    /\ trace' = trace \o <<"st.sidebar.selectbox">>
    /\ pc' = "L120"
    /\ UNCHANGED <<file, cache, widgets, regvars>>

\* lines 120-285
OverviewPage ==
    /\ pc = "L120"
    /\ globals["page"] = "Overview"
    /\ globals' = Assign(globals, "acc_ownership", acc_ownership_of(globals["obs_df"]))
    /\ trace' = trace \o <<"page Overview">>
    /\ pc' = "L747"
    /\ UNCHANGED <<file, cache, widgets, regvars>>

\* lines 286-420
TrendsPage ==
    /\ pc = "L120"
    /\ globals["page"] = "Trends"
    /\ trace' = trace \o <<"page Trends">>
    /\ pc' = "L747"
    /\ UNCHANGED <<file, cache, widgets, globals, regvars>>

\* lines 421-554: forecast_dates is assigned here too, inside the branch of
\* line 445
ForecastsPage ==
    /\ pc = "L120"
    /\ globals["page"] = "Forecasts"
    /\ LET acc == acc_ownership_of(globals["obs_df"])
           g1 == Assign(globals, "acc_ownership", acc)
       IN  globals' = IF Len(acc) > 0
                      THEN Assign(g1, "forecast_dates", forecast_date_range)
                      ELSE g1
    /\ trace' = trace \o <<"page Forecasts">>
    /\ pc' = "L747"
    /\ UNCHANGED <<file, cache, widgets, regvars>>

\* lines 559-568: header of the page; the radio returns the scenario of the session
ProjectionsHeader ==
    /\ pc = "L120"
    /\ globals["page"] = "Inclusion Projections"
    /\ globals' = Assign(globals, "scenario", widgets.scenario)
    /\ trace' = trace \o <<"page Inclusion Projections", "st.sidebar.radio">>
    /\ pc' = "L571"
    /\ UNCHANGED <<file, cache, widgets, regvars>>

\* lines 571-679: forecast_dates and projections are assigned inside the branch
\* of line 580 only
ProjectionsChart ==
    /\ pc = "L571"
    /\ LET acc == acc_ownership_of(globals["obs_df"])
           g1 == Assign(globals, "acc_ownership", acc)
       IN  IF Len(acc) > 0
           THEN /\ globals' =
                       Assign(Assign(g1,
                           "forecast_dates", forecast_date_range),
                           "projections", [of |-> "base_forecast",
                                           times |-> ScenarioFactor(globals["scenario"])])
                /\ trace' = trace \o <<"st.plotly_chart", "st.progress", "st.info">>
           ELSE /\ globals' = g1
                /\ trace' = trace
    /\ pc' = "L682"
    /\ UNCHANGED <<file, cache, widgets, regvars>>

\* lines 682-726: the answers to the key questions
KeyQuestions ==
    /\ pc = "L682"
    /\ trace' = trace \o <<"st.expander">>
    /\ pc' = "L729"
    /\ UNCHANGED <<file, cache, widgets, globals, regvars>>

\* the names lines 732-736 read
ReadByDownload == {"forecast_dates", "projections", "scenario"}

\* lines 729-744: the section header, then projections_df is built from
\* forecast_dates, projections and scenario; reading a name that was never
\* assigned in this run raises NameError
DownloadProjections ==
    /\ pc = "L729"
    /\ IF ReadByDownload \subseteq DOMAIN globals
       THEN /\ globals' = Assign(globals, "projections_df",
                              [Year |-> globals["forecast_dates"],
                               Projection |-> globals["projections"],
                               Scenario |-> globals["scenario"]])
            /\ trace' = trace \o <<"Download Projections", "st.download_button">>
            /\ pc' = "L747"
       ELSE /\ globals' = globals
            /\ trace' = trace \o <<"Download Projections">>
            /\ pc' = "NameError"
    /\ UNCHANGED <<file, cache, widgets, regvars>>

\* lines 747-755
Footer ==
    /\ pc = "L747"
    /\ trace' = trace \o <<"footer">>
    /\ pc' = "done"
    /\ UNCHANGED <<file, cache, widgets, globals, regvars>>

\* the script runs again from the top, in a fresh namespace
Rerun ==
    /\ pc' = "L18"
    /\ globals' = NoGlobals
    /\ trace' = <<>>

\* the user picks another page in the selectbox of the last run; the radio,
\* not rendered on the page left or not yet rendered, starts from its default
SelectPage(p) ==
    /\ pc \in {"done", "NameError"}
    /\ p # widgets.page
    /\ widgets' = [page |-> p, scenario |-> DefaultWidgets.scenario]
    /\ Rerun
    /\ UNCHANGED <<file, cache, regvars>>

\* the user picks another scenario in the radio of the last run
SelectScenario(s) ==
    /\ pc \in {"done", "NameError"}
    /\ widgets.page = "Inclusion Projections"
    /\ s # widgets.scenario
    /\ widgets' = [widgets EXCEPT !.scenario = s]
    /\ Rerun
    /\ UNCHANGED <<file, cache, regvars>>

\* the user reloads the dashboard: a new session, the cache kept
Reload ==
    /\ pc \in {"stopped", "done", "NameError"}
    /\ widgets' = DefaultWidgets
    /\ Rerun
    /\ UNCHANGED <<file, cache, regvars>>

NextDash ==
    \/ PageConfig
    \/ RunLoadData
    \/ CheckLoaded
    \/ PrepareData
    \/ Sidebar
    \/ OverviewPage
    \/ TrendsPage
    \/ ForecastsPage
    \/ ProjectionsHeader
    \/ ProjectionsChart
    \/ KeyQuestions
    \/ DownloadProjections
    \/ Footer
    \/ \E p \in Pages : SelectPage(p)
    \/ \E s \in Scenarios : SelectScenario(s)
    \/ Reload

SpecDash == InitDash /\ [][NextDash]_vars

(* --------------------- vocabulary of the claims ------------------------ *)
(* The terms of the specification, stated independently of get_next_id:    *)
(* an identifier is well-formed for a prefix when it is the prefix, the    *)
(* separator, and a token (up to the next separator, if any) that is a     *)
(* base-10 numeral; its sequence number is the value of that token.        *)

IsDecimal(s) ==
    /\ Len(s) > 0
    /\ \A i \in 1..Len(s) : s[i] \in AsciiDigits

RECURSIVE DecimalValue(_)
DecimalValue(s) ==
    IF s = <<>> THEN 0
    ELSE 10 * DecimalValue(SubSeq(s, 1, Len(s) - 1)) + DigitValue(s[Len(s)])

\* what follows prefix and separator, up to the next separator
TokenAfter(prefix, x) ==
    LET rest == SubSeq(x, Len(prefix) + 2, Len(x))
        stop == IF \E k \in 1..Len(rest) : rest[k] = Sep
                THEN CHOOSE k \in 1..Len(rest) :
                         /\ rest[k] = Sep
                         /\ \A j \in 1..(k - 1) : rest[j] # Sep
                ELSE Len(rest) + 1
    IN  SubSeq(rest, 1, stop - 1)

BelongsTo(prefix, cell) ==
    /\ ~cell.isna
    /\ str_startswith(cell.s, prefix \o <<Sep>>)

WellFormed(prefix, cell) ==
    /\ BelongsTo(prefix, cell)
    /\ IsDecimal(TokenAfter(prefix, cell.s))

SeqNo(prefix, cell) == DecimalValue(TokenAfter(prefix, cell.s))

\* malformed for the prefix: the separator is missing, or the token is no numeral
MalformedFor(prefix, cell) ==
    /\ ~cell.isna
    /\ \/ cell.s = prefix
       \/ BelongsTo(prefix, cell) /\ ~WellFormed(prefix, cell)

Cells(d) == {d.record_id[i] : i \in 1..Len(d.record_id)}

SeqNos(prefix, d) == {SeqNo(prefix, c) : c \in {x \in Cells(d) : WellFormed(prefix, x)}}

SetMax(S) == CHOOSE m \in S : \A n \in S : n <= m

ExpectedSeqNo(prefix, d) ==
    IF SeqNos(prefix, d) = {} THEN 1 ELSE SetMax(SeqNos(prefix, d)) + 1

\* a record_id column of strings (no missing value), as the specification's registry
IsStringRegistry(d) ==
    /\ "record_id" \in d.columns
    /\ \A c \in Cells(d) : ~c.isna

\* the call returned an identifier of the prefix carrying sequence number n
ReturnedSeqNo(r, prefix, n) ==
    /\ r.exc = "none"
    /\ WellFormed(prefix, Str(r.value))
    /\ SeqNo(prefix, Str(r.value)) = n

\* the table with one more cell at position k of the record_id column
WithCell(d, k, cell) ==
    [d EXCEPT !.record_id = SubSeq(@, 1, k - 1) \o <<cell>> \o SubSeq(@, k, Len(@)),
              !.dtype = IF cell.isna THEN @ ELSE "object"]

\* the table keeping only the cells that begin with prefix and separator
OnlyOf(prefix, d) ==
    [d EXCEPT !.record_id = SelectSeq(@, LAMBDA c : BelongsTo(prefix, c)),
              !.dtype = "object"]

LoggedCalls == {log[i] : i \in 1..Len(log)}

(* ------------------------------- claims -------------------------------- *)

\* C1: for every prefix and every registry of identifier strings the call
\* returns the identifier whose sequence number is max(S) + 1, S the sequence
\* numbers of the well-formed identifiers of the prefix, and 1 when S is empty.
C1_NextIsMaxPlusOne ==
    \A c \in LoggedCalls :
        IsStringRegistry(c.df) =>
            ReturnedSeqNo(c.result, c.prefix, ExpectedSeqNo(c.prefix, c.df))

\* C2: the returned identifier has a sequence number strictly greater than that
\* of every well-formed identifier of the prefix in the registry, and so differs
\* from each of them.
C2_AboveEveryExisting ==
    \A c \in LoggedCalls :
        c.result.exc = "none" =>
            \A x \in Cells(c.df) :
                WellFormed(c.prefix, x) =>
                    /\ WellFormed(c.prefix, Str(c.result.value))
                    /\ SeqNo(c.prefix, Str(c.result.value)) > SeqNo(c.prefix, x)
                    /\ c.result.value # x.s

\* C3: cross-prefix isolation: the result for prefix P is the result for the
\* registry holding only the entries that begin with P and the separator, so
\* two registries with the same such entries give the same identifier.
C3_CrossPrefixIsolation ==
    \A c \in LoggedCalls :
        c.df.dtype = "object" /\ "record_id" \in c.df.columns =>
            c.result = get_next_id(c.prefix, OnlyOf(c.prefix, c.df))

\* C4: adding a malformed entry of the prefix (separator missing, or segment not
\* numeric) anywhere in the registry does not change the identifier returned.
C4_MalformedIgnored ==
    \A c \in LoggedCalls :
        c.df.dtype = "object" /\ "record_id" \in c.df.columns =>
            \A bad \in {x \in Pool : MalformedFor(c.prefix, x)} :
                \A k \in 1..(Len(c.df.record_id) + 1) :
                    get_next_id(c.prefix, WithCell(c.df, k, bad)) = c.result

\* C5: the call is total: whatever the entries of the registry, it returns a
\* well-formed identifier of the prefix and no exception leaves it.
C5_Total ==
    \A c \in LoggedCalls :
        /\ c.result.exc = "none"
        /\ WellFormed(c.prefix, Str(c.result.value))

\* C6: on an empty registry the call returns exactly prefix + '_0001'.
C6_EmptyRegistry ==
    \A c \in LoggedCalls :
        "record_id" \in c.df.columns /\ c.df.record_id = <<>> =>
            c.result = Return(c.prefix \o <<"_", "0", "0", "0", "1">>)

C6_Witness ==
    \E c \in LoggedCalls :
        /\ "record_id" \in c.df.columns
        /\ c.df.record_id = <<>>
        /\ c.result.exc = "none"

\* C7: on a non-empty registry holding no well-formed identifier of the prefix
\* the call returns what it returns on the empty registry: sequence number 1.
C7_NoWellFormedStartsAtOne ==
    \A c \in LoggedCalls :
        /\ IsStringRegistry(c.df)
        /\ c.df.record_id # <<>>
        /\ SeqNos(c.prefix, c.df) = {}
        => c.result = Return(c.prefix \o <<"_", "0", "0", "0", "1">>)

C9_RegistryUnchanged ==
    [][Len(log') > Len(log) => df' = df /\ log'[Len(log')].df = df]_vars

C9_Witness ==
    /\ Len(log) >= 1
    /\ log[Len(log)].result.exc = "none"
    /\ df.record_id # <<>>
    /\ Str(log[Len(log)].result.value) \notin Cells(df)

\* C10: monotonicity: when ids2 is ids1 plus one more well-formed entry of the
\* prefix whose sequence number is larger than those in ids1, the sequence
\* number returned for ids2 is strictly greater than the one returned for ids1.
C10_Monotone ==
    \A c \in LoggedCalls :
        IsStringRegistry(c.df) =>
            \A more \in {x \in Pool : WellFormed(c.prefix, x)} :
                (\A n \in SeqNos(c.prefix, c.df) : SeqNo(c.prefix, more) > n) =>
                    \A k \in 1..(Len(c.df.record_id) + 1) :
                        LET r2 == get_next_id(c.prefix, WithCell(c.df, k, more))
                        IN  /\ c.result.exc = "none"
                            /\ r2.exc = "none"
                            /\ WellFormed(c.prefix, Str(c.result.value))
                            /\ WellFormed(c.prefix, Str(r2.value))
                            /\ SeqNo(c.prefix, Str(r2.value))
                                   > SeqNo(c.prefix, Str(c.result.value))

(* --------------------- claims about gaps and callers ------------------- *)

\* the largest well-formed sequence number of the prefix, 0 when there is none
MaxSeqNo(prefix, d) ==
    IF SeqNos(prefix, d) = {} THEN 0 ELSE SetMax(SeqNos(prefix, d))

\* number of rows of the column equal to cell
Count(cells, cell) == Cardinality({i \in 1..Len(cells) : cells[i] = cell})

\* the decimal numeral of n, without padding
RECURSIVE Numeral(_)
Numeral(n) ==
    IF n < 10 THEN <<DigitChar(n)>> ELSE Numeral(n \div 10) \o <<DigitChar(n % 10)>>

\* C11: gaps are never filled: the result depends only on the largest
\* well-formed sequence number of the prefix, so a registry with one more entry
\* and the same maximum for the prefix yields the same identifier.
C11_OnlyMaxMatters ==
    \A c \in LoggedCalls :
        IsStringRegistry(c.df) /\ SeqNos(c.prefix, c.df) # {} =>
            \A x \in {y \in Pool : ~y.isna} :
                \A k \in 1..(Len(c.df.record_id) + 1) :
                    LET d2 == WithCell(c.df, k, x)
                    IN  MaxSeqNo(c.prefix, d2) = MaxSeqNo(c.prefix, c.df) =>
                            get_next_id(c.prefix, d2) = c.result

\* C12: two callers that read the same unmodified registry and compute the
\* identifier of the same prefix obtain the same identifier; once both have
\* appended it the registry holds it twice.
C12_RaceDuplicates ==
    \A i, j \in persisted :
        i < j /\ log[i].prefix = log[j].prefix /\ log[i].df = log[j].df =>
            /\ log[i].result = log[j].result
            /\ Count(df.record_id, Str(log[i].result.value)) >= 2

C12_Witness ==
    \E i, j \in persisted :
        /\ i < j
        /\ log[i].prefix = log[j].prefix
        /\ log[i].df = log[j].df
        /\ Count(log[i].df.record_id, Str(log[i].result.value)) = 0
        /\ Count(df.record_id, Str(log[i].result.value)) = 2

\* C13: when every caller reads, computes and appends in one atomic step, the
\* identifiers appended for one prefix carry pairwise distinct sequence numbers
\* in every reachable registry.
C13_AtomicDistinct ==
    \A i, j \in persisted :
        i # j /\ log[i].prefix = log[j].prefix =>
            SeqNo(log[i].prefix, Str(log[i].result.value))
                # SeqNo(log[j].prefix, Str(log[j].result.value))

\* C14: when the largest well-formed sequence number of the prefix is 9999 or
\* more, the call returns prefix, separator and the full decimal numeral of
\* max + 1: no truncation, no wrap to a smaller number, no exception.
C14_BeyondPadWidth ==
    \A c \in LoggedCalls :
        IsStringRegistry(c.df) /\ MaxSeqNo(c.prefix, c.df) >= 9999 =>
            c.result = Return(c.prefix \o <<"_">>
                              \o Numeral(MaxSeqNo(c.prefix, c.df) + 1))

\* C15: on a table without a record_id column the call returns prefix + '_0001'
\* and raises nothing.
C15_NoRecordIdColumn ==
    \A c \in LoggedCalls :
        "record_id" \notin c.df.columns =>
            c.result = Return(c.prefix \o <<"_", "0", "0", "0", "1">>)

C15_Witness ==
    \E c \in LoggedCalls :
        /\ "record_id" \notin c.df.columns
        /\ c.result.exc = "none"

\* C16: a prefix that itself holds the separator is used verbatim: the existing
\* identifiers prefix + '_' + digits are recognised and the call returns prefix,
\* separator and their maximum + 1.
C16_PrefixWithSeparator ==
    \A c \in LoggedCalls :
        /\ IsStringRegistry(c.df)
        /\ str_contains(c.prefix, Sep)
        /\ SeqNos(c.prefix, c.df) # {}
        => ReturnedSeqNo(c.result, c.prefix, MaxSeqNo(c.prefix, c.df) + 1)

\* the call ended in the except branch of lines 33-34
FallbackTaken(prefix, d) ==
    /\ "record_id" \in d.columns
    /\ d.dtype = "object"
    /\ \E i \in 1..Len(d.record_id) :
           /\ startswith_na_false(d.record_id[i], prefix)
           /\ comprehension_raises(d.record_id[i].s)

\* C17: a parsing failure discards its entry and never the whole call: when the
\* registry holds a well-formed identifier of the prefix, the exception
\* fallback to prefix + '_0001' is not the result.
C17_FailureDiscardsOneEntry ==
    \A c \in LoggedCalls :
        IsStringRegistry(c.df) /\ SeqNos(c.prefix, c.df) # {} =>
            ~(/\ FallbackTaken(c.prefix, c.df)
              /\ c.result = Return(c.prefix \o <<"_", "0", "0", "0", "1">>))

\* C18: an entry equal to the prefix alone, without separator, is not sequence
\* number 0 and does not count: adding it anywhere in the registry leaves the
\* result for that prefix as it was.
C18_BarePrefixIgnored ==
    \A c \in LoggedCalls :
        "record_id" \in c.df.columns /\ c.df.dtype = "object" =>
            \A k \in 1..(Len(c.df.record_id) + 1) :
                get_next_id(c.prefix, WithCell(c.df, k, Str(c.prefix))) = c.result

C18_Witness ==
    \E c \in LoggedCalls :
        /\ SeqNos(c.prefix, c.df) # {}
        /\ Str(c.prefix) \in Cells(c.df)
        /\ ReturnedSeqNo(c.result, c.prefix, MaxSeqNo(c.prefix, c.df) + 1)

\* a well-formed identifier of the prefix with further segments after its numeral
ExtendedFor(prefix, cell) ==
    /\ WellFormed(prefix, cell)
    /\ Len(cell.s) > Len(prefix) + 1 + Len(TokenAfter(prefix, cell.s))

\* the table with row i replaced by cell
ReplaceCell(d, i, cell) == [d EXCEPT !.record_id[i] = cell]

\* C19: an entry whose numeral is followed by further segments is accepted as
\* valid: it counts toward the maximum exactly as the identifier made of the
\* prefix, the separator and its first segment does.
C19_ExtraSegmentsAccepted ==
    \A c \in LoggedCalls :
        "record_id" \in c.df.columns /\ c.df.dtype = "object" =>
            \A i \in 1..Len(c.df.record_id) :
                LET x == c.df.record_id[i]
                IN  ExtendedFor(c.prefix, x) =>
                        c.result = get_next_id(c.prefix,
                            ReplaceCell(c.df, i,
                                Str(c.prefix \o <<Sep>> \o TokenAfter(c.prefix, x.s))))

C19_Witness ==
    \E c \in LoggedCalls :
        /\ Len(c.df.record_id) = 1
        /\ ExtendedFor(c.prefix, c.df.record_id[1])
        /\ ReturnedSeqNo(c.result, c.prefix, SeqNo(c.prefix, c.df.record_id[1]) + 1)

\* C20: from a registry whose largest well-formed sequence number of a prefix
\* is m (0 when there is none), n repetitions of 'call get_next_id for the
\* prefix, append the result' yield the sequence numbers m+1, ..., m+n in order.
C20_Consecutive ==
    (/\ log # <<>>
     /\ IsStringRegistry(log[1].df)
     /\ \A k \in 1..Len(log) : log[k].prefix = log[1].prefix)
    => \A k \in 1..Len(log) :
           ReturnedSeqNo(log[k].result, log[1].prefix,
                         MaxSeqNo(log[1].prefix, log[1].df) + k)

(* ------------------ claims about frames and rendering ------------------ *)

\* the prefixes a caller may ask for after an allocation
ObservedPrefixes == Prefixes \cup {EV}

\* the registry as it is after logged allocation k
RegistryAfter(k) == IF k < Len(log) THEN log[k + 1].df ELSE df

\* C21: allocating for one prefix leaves every other prefix untouched: after
\* get_next_id(A, registry) and the append of its result, get_next_id(B, registry)
\* returns for every prefix B other than A what it returned before the append,
\* at every allocation of a sequence.
C21_OtherPrefixesUntouched ==
    \A k \in 1..Len(log) :
        \A B \in ObservedPrefixes :
            B # log[k].prefix =>
                get_next_id(B, RegistryAfter(k)) = get_next_id(B, log[k].df)

\* what follows prefix and separator in an identifier
Numbering(prefix, id) == SubSeq(id, Len(prefix) + 2, Len(id))

\* C22: every returned string is in canonical form: the prefix as given, one
\* separator, then the decimal numeral of a sequence number of at least 1,
\* zero-padded on the left to exactly 4 digits when the number is below 10000
\* (and the plain numeral from 10000 on).
C22_CanonicalForm ==
    \A c \in LoggedCalls :
        c.result.exc = "none" =>
            LET id == c.result.value
                digits == Numbering(c.prefix, id)
            IN  /\ str_startswith(id, c.prefix \o <<"_">>)
                /\ IsDecimal(digits)
                /\ DecimalValue(digits) >= 1
                /\ DecimalValue(digits) < 10000 => Len(digits) = 4
                /\ DecimalValue(digits) >= 10000 => digits = Numeral(DecimalValue(digits))

C22_Witness ==
    /\ \E c \in LoggedCalls :
           /\ c.prefix = EVT
           /\ c.df.record_id = <<Str(EVT_7)>>
           /\ c.result = Return(EVT \o <<"_", "0", "0", "0", "8">>)
    /\ \E c \in LoggedCalls :
           /\ c.df.record_id = <<Str(EVT_7)>>
           /\ c.result = Return(c.prefix \o <<"_", "0", "0", "0", "1">>)

\* the call made last: every logged call is the last one in the state that
\* follows it, so a property of the last call in every reachable state is a
\* property of every call
LastCall == IF log = <<>> THEN {} ELSE {log[Len(log)]}

\* the identifier of the prefix whose numeral is n padded with zeros to w
\* characters, followed by what followed the numeral in x
Repadded(prefix, x, w) ==
    LET token == TokenAfter(prefix, x)
        rest == SubSeq(x, Len(prefix) + 2 + Len(token), Len(x))
    IN  prefix \o <<Sep>> \o zero_pad(Numeral(DecimalValue(token)), w) \o rest

\* the widths of the claim's examples: 'EVT_7', 'EVT_0007', 'EVT_000007'
PaddingWidths == {1, 4, 6}

\* C23: existing identifiers are compared by numeric value, not by text: an
\* entry of the prefix contributes the same sequence number whether its numeral
\* is unpadded, padded to 4 or over-padded, so the returned identifier, in its
\* canonical padding, does not depend on how the entry was padded.
C23_NumericComparison ==
    \A c \in LastCall :
        "record_id" \in c.df.columns /\ c.df.dtype = "object" =>
            \A i \in 1..Len(c.df.record_id) :
                LET x == c.df.record_id[i]
                IN  WellFormed(c.prefix, x) =>
                        \A w \in PaddingWidths :
                            get_next_id(c.prefix,
                                ReplaceCell(c.df, i, Str(Repadded(c.prefix, x.s, w))))
                                = c.result

C23_Witness ==
    /\ \E c \in LoggedCalls :
           /\ c.prefix = EVT
           /\ c.df.record_id = <<Str(EVT_000007), Str(EVT_0005)>>
           /\ c.result = Return(EVT \o <<"_", "0", "0", "0", "8">>)
    /\ get_next_id(EVT, [df EXCEPT !.record_id = <<Str(EVT_7), Str(EVT_0005)>>])
           = Return(EVT \o <<"_", "0", "0", "0", "8">>)

\* C24: round trip: the identifier r returned for a prefix is itself a
\* well-formed identifier of that prefix, and get_next_id on the registry
\* extended with r returns the identifier whose sequence number is one more
\* than that of r.
C24_RoundTrip ==
    \A c \in LoggedCalls :
        "record_id" \in c.df.columns /\ c.result.exc = "none" =>
            /\ WellFormed(c.prefix, Str(c.result.value))
            /\ ReturnedSeqNo(get_next_id(c.prefix, AppendId(c.df, c.result.value)),
                             c.prefix,
                             SeqNo(c.prefix, Str(c.result.value)) + 1)

\* the table with rows i and i + 1 exchanged
SwapRows(d, i) ==
    [d EXCEPT !.record_id[i] = d.record_id[i + 1],
              !.record_id[i + 1] = d.record_id[i]]

\* the table with row i repeated once more, as a new last row
RepeatRow(d, i) == [d EXCEPT !.record_id = Append(@, d.record_id[i])]

\* C25: the result depends only on the set of entries: exchanging two
\* neighbouring rows or repeating a row once more at the end (the steps every
\* reordering and every repetition is made of) leaves the returned identifier
\* as it was.
C25_OrderAndRepetition ==
    \A c \in LastCall :
        /\ \A i \in 1..(Len(c.df.record_id) - 1) :
               get_next_id(c.prefix, SwapRows(c.df, i)) = c.result
        /\ \A i \in 1..Len(c.df.record_id) :
               get_next_id(c.prefix, RepeatRow(c.df, i)) = c.result

C25_Witness ==
    \E c \in LoggedCalls :
        /\ c.prefix = EVT
        /\ c.df.record_id = <<Str(EVT_0005), Str(EVT_0003)>>
        /\ c.result = Return(EVT \o <<"_", "0", "0", "0", "6">>)

\* the tables a registry can become when a missing value is added at row k
WithMissingValue(d, k) ==
    LET cells == SubSeq(d.record_id, 1, k - 1) \o <<NaN>>
                     \o SubSeq(d.record_id, k, Len(d.record_id))
    IN  {[d EXCEPT !.record_id = cells, !.dtype = t] : t \in Dtypes(cells)}

\* C26: missing values in the record_id column are excluded by the prefix
\* filter: they raise no error and do not contribute to the maximum, so adding
\* one anywhere to any registry leaves the result of get_next_id unchanged.
C26_MissingValuesIgnored ==
    \A c \in LoggedCalls :
        "record_id" \in c.df.columns /\ c.result.exc = "none" =>
            \A k \in 1..(Len(c.df.record_id) + 1) :
                \A d2 \in WithMissingValue(c.df, k) :
                    get_next_id(c.prefix, d2) = c.result

(* ----------------------- claims about the dashboard -------------------- *)

\* what a run calls and renders up to the test of line 96
StartUpTrace == {"st.set_page_config", "st.markdown(style)", "load_data", "st.error"}

\* something of this kind is in the trace of the run
Traced(events) == \E i \in 1..Len(trace) : trace[i] \in events

\* the run has called load_data
Loaded == pc \notin {"off", "L18", "L95"}

\* C27: dashboard start-up: when the data file does not exist, load_data
\* reports an error and returns None and the script stops before preparing
\* observations, events or impact links and before rendering any page; whatever
\* a run prepares or renders beyond start-up comes after a successful load.
C27_StopsWithoutData ==
    /\ Loaded /\ ~path_exists(file) =>
           /\ globals["df"].isnone
           /\ Traced({"st.error"})
           /\ pc \in {"L96", "stopped"}
           /\ \A i \in 1..Len(trace) : trace[i] \in StartUpTrace
    /\ (\E i \in 1..Len(trace) : trace[i] \notin StartUpTrace) =>
           /\ path_exists(file)
           /\ ~globals["df"].isnone
           /\ ~Traced({"st.error"})

C27_Witness ==
    /\ ~path_exists(file)
    /\ pc = "stopped"
    /\ cache.hit
    /\ trace = <<"st.set_page_config", "st.markdown(style)", "load_data", "st.error">>

\* C28: on the Inclusion Projections page every execution path reaches the
\* 'Download Projections' section with the values it reads (projections,
\* forecast_dates) already assigned, for each scenario and whether or not a
\* national all-gender ACC_OWNERSHIP observation exists, so that no run of the
\* page ends in NameError.
C28_DownloadValuesDefined ==
    /\ pc = "L729" => {"projections", "forecast_dates"} \subseteq DOMAIN globals
    /\ pc # "NameError"

====
